---------------------------- MODULE Spec2Model ----------------------------
(***************************************************************************)
(* Model of collision_functions.py: the per-frame update of N circular     *)
(* particles in a box (update) and the elastic pair resolution (collision).*)
(*                                                                         *)
(* Numbers.  The arrays hold doubles.  They are modelled by exact          *)
(* rationals <<n, d>> in lowest terms with d > 0, plus the one non-finite  *)
(* value the code can produce, NaN == <<0, 0>> (the 0/0 of two coincident  *)
(* centres).  A NaN operand makes every arithmetic result NaN and every    *)
(* comparison false, as in IEEE 754.                                       *)
(*                                                                         *)
(* Indices.  Particles are numbered 1..N (the source numbers them 0..N-1). *)
(***************************************************************************)
EXTENDS Integers, Sequences, FiniteSets

(***************************************************************************)
(* Bounds of the model.                                                    *)
(***************************************************************************)
MaxN == 3
MaxFrames == 2

(***************************************************************************)
(* Double arithmetic, as exact rationals with NaN.                         *)
(***************************************************************************)
Abs(n) == IF n < 0 THEN -n ELSE n

RECURSIVE GCD(_, _)
GCD(a, b) == IF b = 0 THEN a ELSE GCD(b, a % b)

NaN == <<0, 0>>

IsNaN(a) == a[2] = 0

Norm(n, d) ==
  IF d = 0 THEN NaN
  ELSE LET g == GCD(Abs(n), Abs(d))
           s == IF d < 0 THEN -1 ELSE 1
       IN  <<(s * n) \div g, (s * d) \div g>>

Rat(n) == <<n, 1>>

RAdd(a, b) ==
  IF IsNaN(a) \/ IsNaN(b) THEN NaN
  ELSE Norm(a[1] * b[2] + b[1] * a[2], a[2] * b[2])

RNeg(a) == <<-a[1], a[2]>>

RSub(a, b) == RAdd(a, RNeg(b))

RMul(a, b) ==
  IF IsNaN(a) \/ IsNaN(b) THEN NaN
  ELSE Norm(a[1] * b[1], a[2] * b[2])

\* a / b.  The only zero divisor the code meets is a squared distance of two
\* coincident centres, whose dividend (a dot product with the zero vector) is
\* zero too: 0/0 = NaN.
RDiv(a, b) ==
  IF IsNaN(a) \/ IsNaN(b) \/ b[1] = 0 THEN NaN
  ELSE Norm(a[1] * b[2], a[2] * b[1])

RLt(a, b) == ~IsNaN(a) /\ ~IsNaN(b) /\ a[1] * b[2] < b[1] * a[2]

RGt(a, b) == RLt(b, a)

RGe(a, b) == ~IsNaN(a) /\ ~IsNaN(b) /\ a[1] * b[2] >= b[1] * a[2]

Zero == Rat(0)

Axes == {1, 2}

VAdd(u, v) == <<RAdd(u[1], v[1]), RAdd(u[2], v[2])>>

VSub(u, v) == <<RSub(u[1], v[1]), RSub(u[2], v[2])>>

VScale(c, u) == <<RMul(c, u[1]), RMul(c, u[2])>>

VDot(u, v) == RAdd(RMul(u[1], v[1]), RMul(u[2], v[2]))

(***************************************************************************)
(* State.                                                                  *)
(*   position, velocity : the caller's N x 2 arrays, mutated in place      *)
(*   delta_time, maxes, radius : the arguments passed on every call        *)
(*   frame    : number of update() calls made so far                       *)
(*   outcome  : how the last call ended ("none" before the first call)     *)
(*   p_in, v_in : the arrays as they were on entry to the last call        *)
(*   v_refl   : velocity right after the boundary reflection (line 109)    *)
(*   handed   : the pairs handed to collision() by the last call, as a     *)
(*              sequence of <<i, j, squared distance>>                     *)
(*   h_in     : the pairs handed to collision() by the call before it      *)
(***************************************************************************)
VARIABLES position, velocity, delta_time, maxes, radius,
          frame, outcome, p_in, v_in, v_refl, handed, h_in

vars == <<position, velocity, delta_time, maxes, radius,
          frame, outcome, p_in, v_in, v_refl, handed, h_in>>

N == Len(position)


(***************************************************************************)
(* The inputs the model draws from: the caller seeds the arrays and passes *)
(* the same parameters on every call.                                      *)
(***************************************************************************)
Boxes == {<<Rat(1), Rat(1)>>, <<Rat(2), Rat(1)>>}

Radii == {<<1, 2>>}

Steps == {<<1, 2>>}

Vels == {<<Rat(1), Rat(0)>>, <<Rat(-1), Rat(0)>>, <<Rat(-1), Rat(1)>>}

\* The integer points of the box [0, max_x] x [0, max_y].
Grid(box) == {<<Rat(x), Rat(y)>> : x \in 0..box[1][1], y \in 0..box[2][1]}

Init ==
  /\ maxes \in Boxes
  /\ radius \in Radii
  /\ delta_time \in Steps
  /\ \E n \in 0..MaxN :
       /\ position \in [1..n -> Grid(maxes)]
       /\ velocity \in [1..n -> Vels]
  /\ frame = 0
  /\ outcome = "none"
  /\ p_in = position
  /\ v_in = velocity
  /\ v_refl = velocity
  /\ handed = <<>>
  /\ h_in = <<>>

(***************************************************************************)
(* update, line 106:  position += delta_time*velocity                      *)
(***************************************************************************)
integrate(pos, vel, dt) ==
  [k \in 1..Len(pos) |-> VAdd(pos[k], VScale(dt, vel[k]))]

(***************************************************************************)
(* update, line 109.  The mask is an N x 2 boolean array, one entry per    *)
(* coordinate: the coordinate is negative, or greater than maxes[0] and    *)
(* greater than maxes[1].  velocity[mask] *= -1 negates the entries of     *)
(* velocity at the True places of the mask.                                *)
(***************************************************************************)
\* Mutant: the test for a negative coordinate is left out.
out_of_bounds_upper_only(c, box) == RGt(c, box[1]) /\ RGt(c, box[2])

out_of_bounds(c, box) == RLt(c, Zero) \/ (RGt(c, box[1]) /\ RGt(c, box[2]))

flip_entry(c, v, box) == IF out_of_bounds(c, box) THEN RMul(v, Rat(-1)) ELSE v

\* Mutant: a particle with a marked coordinate has its whole velocity negated.
flip_whole_velocity(pos, vel, box) ==
  [k \in 1..Len(pos) |->
     IF out_of_bounds(pos[k][1], box) \/ out_of_bounds(pos[k][2], box)
     THEN <<RMul(vel[k][1], Rat(-1)), RMul(vel[k][2], Rat(-1))>>
     ELSE vel[k]]

flip(pos, vel, box) ==
  [k \in 1..Len(pos) |-> <<flip_entry(pos[k][1], vel[k][1], box),
                           flip_entry(pos[k][2], vel[k][2], box)>>]


(***************************************************************************)
(* update, lines 112-117: detection.                                       *)
(*   combination : itertools.combinations(range(N), 2), the pairs (i, j),  *)
(*                 i < j, in lexicographic order                           *)
(*   distances   : per pair, the sum over the axes of the squared          *)
(*                 difference (second particle minus first)                *)
(*   indices     : np.where(distances < 4*radius ** 2)[0], the places of   *)
(*                 the list of pairs that pass the test, ascending         *)
(***************************************************************************)
RECURSIVE combinations(_, _, _)
combinations(i, j, n) ==
  IF i >= n THEN <<>>
  ELSE IF j > n THEN combinations(i + 1, i + 2, n)
  ELSE <<<<i, j>>>> \o combinations(i, j + 1, n)

combination(n) == combinations(1, 2, n)

square(c) == RMul(c, c)

distance(p, q) == RAdd(square(RSub(q[1], p[1])), square(RSub(q[2], p[2])))

distances(pos) ==
  LET comb == combination(Len(pos))
  IN  [p \in 1..Len(comb) |-> distance(pos[comb[p][1]], pos[comb[p][2]])]

\* Mutant: (4*radius) ** 2.
threshold_square_of_product(r) == square(RMul(Rat(4), r))

threshold(r) == RMul(Rat(4), square(r))

\* Mutant: distances <= 4*radius ** 2.
colliding_or_touching(d, r) == RGe(threshold(r), d)

colliding(d, r) == RLt(d, threshold(r))

RECURSIVE where(_, _, _)
where(dist, r, p) ==
  IF p > Len(dist) THEN <<>>
  ELSE IF colliding(dist[p], r) THEN <<p>> \o where(dist, r, p + 1)
  ELSE where(dist, r, p + 1)

indices(dist, r) == where(dist, r, 1)

(***************************************************************************)
(* collision, lines 69-76.  ind is combination[indices] (one <<i, j>> per  *)
(* selected pair) and dist is distances[indices].  diff and dot are        *)
(* computed for all selected pairs from the arrays as passed in, before    *)
(* any velocity is written.                                                *)
(***************************************************************************)
diff(ind, pos) == [p \in 1..Len(ind) |-> VSub(pos[ind[p][1]], pos[ind[p][2]])]

dot(ind, pos, vel) ==
  LET d == diff(ind, pos)
  IN  [p \in 1..Len(ind) |-> VDot(d[p], VSub(vel[ind[p][1]], vel[ind[p][2]]))]

\* Mutant: dot*diff, the division by the squared distance is left out.
impulse_not_divided(ind, dist, pos, vel) ==
  LET d == diff(ind, pos)
      t == dot(ind, pos, vel)
  IN  [p \in 1..Len(ind) |-> VScale(t[p], d[p])]

\* dot / distances[:, np.newaxis]*diff, i.e. (dot / distances) * diff
impulse(ind, dist, pos, vel) ==
  LET d == diff(ind, pos)
      t == dot(ind, pos, vel)
  IN  [p \in 1..Len(ind) |-> VScale(RDiv(t[p], dist[p]), d[p])]

(***************************************************************************)
(* An in-place operation through an index array, velocity[idx] op= rhs, is *)
(* a gather, the arithmetic on the gathered copy, and a scatter of the     *)
(* results.  Where idx names a particle more than once, one of the values  *)
(* written to it survives (the last one written; NumPy gives no guarantee  *)
(* on the order of the writes): scatter is the set of arrays that can      *)
(* result.  side is 1 for the i column of ind, 2 for the j column.         *)
(***************************************************************************)
writers(ind, side, k) == {p \in 1..Len(ind) : ind[p][side] = k}

\* The values particle k can hold after the scatter.
survivors(vel, ind, side, val, k) ==
  IF writers(ind, side, k) = {} THEN {vel[k]}
  ELSE {val[p] : p \in writers(ind, side, k)}

RECURSIVE arrays(_, _, _, _, _)
arrays(vel, ind, side, val, k) ==
  IF k = 0 THEN {<<>>}
  ELSE {Append(s, c) : s \in arrays(vel, ind, side, val, k - 1),
                       c \in survivors(vel, ind, side, val, k)}

scatter(vel, ind, side, val) == arrays(vel, ind, side, val, Len(vel))

\* line 75: velocity[i] -= impulse
subtract_from_i(vel, ind, imp) ==
  UNION {scatter(vel, ind, 1, val) :
           val \in {[p \in 1..Len(ind) |-> VSub(vel[ind[p][1]], imp[p])]}}

\* Mutant: velocity[j] -= impulse.
subtract_from_j(vel, ind, imp) ==
  UNION {scatter(vel, ind, 2, val) :
           val \in {[p \in 1..Len(ind) |-> VSub(vel[ind[p][2]], imp[p])]}}

\* line 76: velocity[j] += impulse
add_to_j(vel, ind, imp) ==
  UNION {scatter(vel, ind, 2, val) :
           val \in {[p \in 1..Len(ind) |-> VAdd(vel[ind[p][2]], imp[p])]}}

\* The velocity arrays collision() can leave behind.
collision(ind, dist, pos, vel) ==
  UNION {UNION {add_to_j(v2, ind, imp) : v2 \in subtract_from_i(vel, ind, imp)} :
           imp \in {impulse(ind, dist, pos, vel)}}

(***************************************************************************)
(* update, lines 106-121, as one step.  Lines 106 and 109 always run, and  *)
(* write the caller's arrays in place.  What follows depends on N:         *)
(*   N < 2 : the list of pairs is empty, np.asarray gives a 1-d array and  *)
(*           swapaxes(1, 2) on line 112 raises AxisError;                  *)
(*   N = 2 : there is one pair, squeeze() on line 113 removes the pair     *)
(*           axis as well, distances is 0-d and indexing it on line 119    *)
(*           raises IndexError (np.where on line 114 raises first in       *)
(*           NumPy >= 2.1);                                                *)
(*   N > 2 : the selected pairs are handed to collision(), and update      *)
(*           returns position.                                             *)
(***************************************************************************)
update ==
  /\ frame < MaxFrames
  /\ \E pos1 \in {integrate(position, velocity, delta_time)} :
     \E vel1 \in {flip(pos1, velocity, maxes)} :
     \E dist \in {distances(pos1)} :
     \E sel \in {indices(dist, radius)} :
     \E comb \in {combination(Len(pos1))} :
     \E ind \in {[p \in 1..Len(sel) |-> comb[sel[p]]]} :
     \E dsel \in {[p \in 1..Len(sel) |-> dist[sel[p]]]} :
       /\ position' = pos1
       /\ p_in' = position
       /\ v_in' = velocity
       /\ v_refl' = vel1
       /\ h_in' = handed
       /\ IF Len(pos1) < 2
          THEN /\ outcome' = "AxisError"
               /\ velocity' = vel1
               /\ handed' = <<>>
          ELSE IF Len(pos1) = 2
          THEN /\ outcome' = "IndexError"
               /\ velocity' = vel1
               /\ handed' = <<>>
          ELSE /\ outcome' = "returned"
               /\ velocity' \in collision(ind, dsel, pos1, vel1)
               /\ handed' = [p \in 1..Len(sel) |->
                               <<ind[p][1], ind[p][2], dsel[p]>>]
  /\ frame' = frame + 1
  /\ UNCHANGED <<delta_time, maxes, radius>>

Next == update

Spec == Init /\ [][Next]_vars


(***************************************************************************)
(* Vocabulary of the properties.  It is written from the state alone: the  *)
(* box, the threshold and the distances are recomputed here and not taken  *)
(* from the operators of update and collision.                             *)
(***************************************************************************)
Particles == 1..N

Pairs == {pr \in Particles \X Particles : pr[1] < pr[2]}

\* Equality of doubles: NaN equals nothing.
FEq(a, b) == ~IsNaN(a) /\ ~IsNaN(b) /\ a = b

VEq(u, v) == FEq(u[1], v[1]) /\ FEq(u[2], v[2])

Finite(u) == ~IsNaN(u[1]) /\ ~IsNaN(u[2])

\* The coordinate c lies in [0, max] on axis a / outside of it.
InRange(c, a) == RGe(c, Zero) /\ RGe(maxes[a], c)

OutOfRange(c, a) == RLt(c, Zero) \/ RGt(c, maxes[a])

InBox(u) == InRange(u[1], 1) /\ InRange(u[2], 2)

OutOfBox(u) == OutOfRange(u[1], 1) \/ OutOfRange(u[2], 2)

\* The coordinate c is negative or greater than both bounds of the box.
Beyond(c) == RLt(c, Zero) \/ (RGt(c, maxes[1]) /\ RGt(c, maxes[2]))

Thr == <<4 * radius[1] * radius[1], radius[2] * radius[2]>>

\* Squared distance of the centres of k and l, from the positions of the state.
SqDist(k, l) ==
  LET dx == RSub(position[k][1], position[l][1])
      dy == RSub(position[k][2], position[l][2])
  IN  RAdd(RMul(dx, dx), RMul(dy, dy))

Near(k, l) == RLt(SqDist(k, l), Thr)

Touching(k, l) == FEq(SqDist(k, l), Norm(Thr[1], Thr[2]))

Cross(u, v) == RSub(RMul(u[1], v[2]), RMul(u[2], v[1]))

\* After reflection, i and j move straight at each other along the line of
\* centres.
HeadOn(i, j) ==
  LET d == VSub(position[j], position[i])
  IN  /\ FEq(Cross(v_refl[i], d), Zero)
      /\ FEq(Cross(v_refl[j], d), Zero)
      /\ RGt(VDot(v_refl[i], d), Zero)
      /\ RLt(VDot(v_refl[j], d), Zero)

\* No third particle is within 2*radius of i or of j.
Alone(i, j) ==
  \A k \in Particles \ {i, j} : ~Near(i, k) /\ ~Near(k, i) /\ ~Near(j, k) /\ ~Near(k, j)

Handed == {<<handed[p][1], handed[p][2]>> : p \in DOMAIN handed}

InPair(k) == \E p \in DOMAIN handed : handed[p][1] = k \/ handed[p][2] = k

\* The pair handed[p] shares no particle with another handed pair.
Lone(p) ==
  \A q \in DOMAIN handed \ {p} :
    {handed[q][1], handed[q][2]} \cap {handed[p][1], handed[p][2]} = {}

Energy(u) == VDot(u, u)

RECURSIVE VSum(_, _)
VSum(arr, k) == IF k = 0 THEN <<Zero, Zero>> ELSE VAdd(VSum(arr, k - 1), arr[k])

Called == frame > 0

Returned == Called /\ outcome = "returned"

(***************************************************************************)
(* C1 (as stated): in a call that returns, a particle reflected at the     *)
(* boundary, i.e. one with a coordinate the reflection test marks, has     *)
(* both velocity components negated by the reflection.                     *)
(***************************************************************************)
C1_BothNegated ==
  Returned =>
    \A k \in Particles :
      (Beyond(position[k][1]) \/ Beyond(position[k][2]))
        => v_refl[k] = <<RNeg(v_in[k][1]), RNeg(v_in[k][2])>>

(***************************************************************************)
(* C1 (amended): the reflection negates exactly the velocity components of *)
(* the marked coordinates; the component on an axis whose coordinate is    *)
(* not marked is left as it was.                                           *)
(***************************************************************************)
C1_PerAxisNegated ==
  Called =>
    \A k \in Particles : \A a \in Axes :
      v_refl[k][a] = IF Beyond(position[k][a]) THEN RNeg(v_in[k][a])
                     ELSE v_in[k][a]

C1_Witness ==
  /\ Returned
  /\ \E k \in Particles :
       /\ Beyond(position[k][1])
       /\ ~Beyond(position[k][2])
       /\ v_in[k][2] # Zero
       /\ v_refl[k] = <<RNeg(v_in[k][1]), v_in[k][2]>>

(***************************************************************************)
(* C2: whenever a coordinate of a particle is outside [0, bound of its     *)
(* axis] after integration, the velocity component on that axis is         *)
(* sign-flipped in the same frame (stated for the calls that return).      *)
(***************************************************************************)
C2_OutsideIsFlipped ==
  Returned =>
    \A k \in Particles : \A a \in Axes :
      OutOfRange(position[k][a], a) => v_refl[k][a] = RNeg(v_in[k][a])

(***************************************************************************)
(* C3 (as stated): two particles exactly 2*radius apart after integration, *)
(* moving straight at each other, with no third particle near, leave the   *)
(* frame with their velocities exchanged.                                  *)
(***************************************************************************)
C3_TouchingExchanges ==
  Returned =>
    \A pr \in Pairs :
      (Touching(pr[1], pr[2]) /\ HeadOn(pr[1], pr[2]) /\ Alone(pr[1], pr[2]))
        => /\ velocity[pr[1]] = v_refl[pr[2]]
           /\ velocity[pr[2]] = v_refl[pr[1]]

(***************************************************************************)
(* C3 (amended): two particles exactly 2*radius apart after integration    *)
(* are not a colliding pair: the pair is not handed to the resolution, and *)
(* when no third particle is near, both keep the velocities they had after *)
(* the boundary reflection.                                                *)
(***************************************************************************)
C3_TouchingNotResolved ==
  Called =>
    \A pr \in Pairs :
      Touching(pr[1], pr[2])
        => /\ pr \notin Handed
           /\ Alone(pr[1], pr[2])
                => /\ velocity[pr[1]] = v_refl[pr[1]]
                   /\ velocity[pr[2]] = v_refl[pr[2]]

C3_Witness ==
  /\ Returned
  /\ \E pr \in Pairs :
       /\ Touching(pr[1], pr[2])
       /\ HeadOn(pr[1], pr[2])
       /\ Alone(pr[1], pr[2])
       /\ velocity[pr[1]] = v_refl[pr[1]]
       /\ velocity[pr[2]] = v_refl[pr[2]]
       /\ velocity[pr[1]] # v_refl[pr[2]]

(***************************************************************************)
(* C4: a call with zero or one particle returns normally, with the         *)
(* position advanced and the velocity as the reflection left it.           *)
(***************************************************************************)
C4_FewParticlesReturn ==
  (Called /\ N < 2) =>
    /\ outcome = "returned"
    /\ velocity = v_refl
    /\ \A k \in Particles :
         position[k] = VAdd(p_in[k], VScale(delta_time, v_in[k]))

(***************************************************************************)
(* C5 (as stated): for a colliding pair that shares no particle with       *)
(* another colliding pair, the two velocity changes are opposite and the   *)
(* sum of the two velocities is the same before and after the resolution.  *)
(***************************************************************************)
C5_PairMomentum ==
  Called =>
    \A p \in DOMAIN handed :
      Lone(p) =>
        LET i == handed[p][1]
            j == handed[p][2]
        IN  /\ VEq(VAdd(velocity[i], velocity[j]), VAdd(v_refl[i], v_refl[j]))
            /\ VEq(VSub(velocity[i], v_refl[i]),
                   VScale(Rat(-1), VSub(velocity[j], v_refl[j])))

(***************************************************************************)
(* C5 (amended): the same, for a pair whose two centres are at distinct    *)
(* positions.                                                              *)
(***************************************************************************)
C5_DistinctPairMomentum ==
  Called =>
    \A p \in DOMAIN handed :
      (Lone(p) /\ position[handed[p][1]] # position[handed[p][2]]) =>
        LET i == handed[p][1]
            j == handed[p][2]
        IN  /\ VEq(VAdd(velocity[i], velocity[j]), VAdd(v_refl[i], v_refl[j]))
            /\ VEq(VSub(velocity[i], v_refl[i]),
                   VScale(Rat(-1), VSub(velocity[j], v_refl[j])))

C5_Witness ==
  /\ Returned
  /\ \E p \in DOMAIN handed :
       /\ Lone(p)
       /\ position[handed[p][1]] # position[handed[p][2]]
       /\ velocity[handed[p][1]] # v_refl[handed[p][1]]
       /\ VEq(VAdd(velocity[handed[p][1]], velocity[handed[p][2]]),
              VAdd(v_refl[handed[p][1]], v_refl[handed[p][2]]))

(***************************************************************************)
(* C6: for a colliding pair at distinct positions that shares no particle  *)
(* with another colliding pair, |v_i|^2 + |v_j|^2 is the same before and   *)
(* after the resolution, the divisor of the impulse being the squared      *)
(* distance of the two centres.                                            *)
(***************************************************************************)
C6_PairEnergy ==
  Called =>
    \A p \in DOMAIN handed :
      (Lone(p) /\ position[handed[p][1]] # position[handed[p][2]]) =>
        LET i == handed[p][1]
            j == handed[p][2]
        IN  /\ FEq(handed[p][3], SqDist(i, j))
            /\ FEq(RAdd(Energy(velocity[i]), Energy(velocity[j])),
                   RAdd(Energy(v_refl[i]), Energy(v_refl[j])))

C6_Witness ==
  /\ Returned
  /\ \E p \in DOMAIN handed :
       /\ Lone(p)
       /\ position[handed[p][1]] # position[handed[p][2]]
       /\ Energy(velocity[handed[p][1]]) # Energy(v_refl[handed[p][1]])
       /\ FEq(RAdd(Energy(velocity[handed[p][1]]), Energy(velocity[handed[p][2]])),
              RAdd(Energy(v_refl[handed[p][1]]), Energy(v_refl[handed[p][2]])))

(***************************************************************************)
(* C7: if every pair of particles has squared distance >= 4*radius^2 after *)
(* integration, every velocity at the end of the frame is the velocity     *)
(* right after the boundary reflection.                                    *)
(***************************************************************************)
C7_NoCollisionNoChange ==
  (Called /\ \A pr \in Pairs : RGe(SqDist(pr[1], pr[2]), Thr))
    => velocity = v_refl

C7_Witness ==
  /\ Returned
  /\ \A pr \in Pairs : RGe(SqDist(pr[1], pr[2]), Thr)
  /\ \E pr \in Pairs : Touching(pr[1], pr[2]) /\ HeadOn(pr[1], pr[2])
  /\ velocity = v_refl

(***************************************************************************)
(* C8 (as stated): a particle outside the box at the end of one frame is   *)
(* inside the box at the end of the following frame.  It is stated here    *)
(* for the particles whose every out-of-range coordinate was marked by the *)
(* reflection test, and whose next position is finite.                     *)
(***************************************************************************)
C8_BackInsideNextFrame ==
  [][\A k \in Particles :
       (/\ OutOfBox(position[k])
        /\ \A a \in Axes : OutOfRange(position[k][a], a) => Beyond(position[k][a])
        /\ Finite(position'[k]))
         => InBox(position'[k])]_vars

(***************************************************************************)
(* C8 (amended): positions are never clamped (the position at the end of a *)
(* frame is the position on entry plus delta_time times the velocity on    *)
(* entry), and a coordinate that was within its range at the end of the    *)
(* preceding frame, is negative or greater than both bounds at the end of  *)
(* this frame, and belongs to a particle in no colliding pair of this      *)
(* frame, is back at its preceding value at the end of the next frame.     *)
(***************************************************************************)
C8_ReflectedCoordinateReturns ==
  /\ [](Called => \A k \in Particles :
                    position[k] = VAdd(p_in[k], VScale(delta_time, v_in[k])))
  /\ [][\A k \in Particles : \A a \in Axes :
          (Called /\ InRange(p_in[k][a], a) /\ Beyond(position[k][a])
             /\ ~InPair(k))
            => (position'[k][a] = p_in[k][a] /\ InRange(position'[k][a], a))]_vars

C8_Witness ==
  /\ Returned
  /\ frame > 1
  /\ \E k \in Particles : \E a \in Axes :
       /\ Beyond(p_in[k][a])
       /\ OutOfBox(p_in[k])
       /\ \A q \in DOMAIN h_in : h_in[q][1] # k /\ h_in[q][2] # k
       /\ InRange(position[k][a], a)
       /\ position[k][a] = RAdd(p_in[k][a], RMul(delta_time, v_in[k][a]))

(***************************************************************************)
(* C9: in a call with N >= 2 particles the resolution is handed exactly    *)
(* the pairs (i, j), i < j, whose squared distance, computed from the      *)
(* positions after integration, is less than 4*radius^2, each with the     *)
(* squared distance of its own two particles.                              *)
(***************************************************************************)
C9_HandedPairs ==
  (Called /\ N >= 2) =>
    /\ outcome = "returned"
    /\ Handed = {pr \in Pairs : Near(pr[1], pr[2])}
    /\ \A p \in DOMAIN handed :
         handed[p][3] = SqDist(handed[p][1], handed[p][2])

(***************************************************************************)
(* C10: whatever pairs collide in a frame (no two centres coincident), the *)
(* sum of the velocities of all particles is the same before and after the *)
(* resolution.                                                             *)
(***************************************************************************)
C10_TotalMomentum ==
  (/\ Returned
   /\ \A k \in Particles : Finite(v_refl[k])
   /\ \A p \in DOMAIN handed : handed[p][3] # Zero)
    => VSum(velocity, N) = VSum(v_refl, N)

=============================================================================
